---- MODULE Spec2Model ----
(***************************************************************************)
(* PipeScanner Web: the point/segment data model (PointManager), its      *)
(* validation helpers and the project save/load path, as a state machine.  *)
(*                                                                         *)
(* JavaScript values are written as tuples so that a nullable field can    *)
(* be compared with every value it may hold:                               *)
(*   null       <<>>                                                       *)
(*   undefined  <<"undefined", "undefined">>   (an absent property)        *)
(*   a number n <<n>>        a string s <<s>>       an object o <<o>>      *)
(* A memo is a string of characters, <<c1, ..., cn>>, so that its length   *)
(* and trim() can be computed.                                             *)
(***************************************************************************)
EXTENDS Integers, Sequences, FiniteSets, TLC

VARIABLES
  points,       \* PointManager.points
  nextId,       \* PointManager._nextId
  calibration,  \* PointManager._calibration
  storage,      \* the project document in localStorage, null when there is none
  ret,          \* the last operation and what it returned
  notified,     \* how often the last operation called each subscriber
  delivered,    \* the array the last call of the subscribers was given
  kept,         \* a snapshot a subscriber has held on to, as it reads now
  issued,       \* history: the largest id addPoint has handed out so far
  issuedSinceReset,  \* history: the same, since the last clear or loadPoints
  sensor,       \* the SensorManager, its init() in progress and its platform
  capture,      \* WebXRManager._captureCompassHeading: its promise, its two
                \* listeners and its timer
  ar            \* the App in AR mode: the anchors of its WebXRManager, the
                \* _onARTap calls that wait for a distance, _arDistanceResolve

pmVars == <<points, nextId, calibration>>
\* what no operation of the PointManager touches
elsewhere == <<issued, issuedSinceReset, kept, sensor, capture, ar>>
vars ==
  <<points, nextId, calibration, storage, ret, notified, delivered, kept,
    issued, issuedSinceReset, sensor, capture, ar>>

(* ---------------------------------------------------------------------- *)
(* Bounds of the model                                                     *)
(* ---------------------------------------------------------------------- *)

\* config.js sets MAX_POINTS = 100; the model is checked with a small cap,
\* every operation being written in terms of MAX_POINTS.
MAX_POINTS == 3

\* addPoint is not taken once the id counter has passed MaxId.
MaxId == 3

(* ---------------------------------------------------------------------- *)
(* Program constants                                                       *)
(* ---------------------------------------------------------------------- *)

MEMO_MAX_LENGTH == 50

MAX_DISTANCE == 1000

(* ---------------------------------------------------------------------- *)
(* JavaScript values                                                       *)
(* ---------------------------------------------------------------------- *)

Null == <<>>

Undef == <<"undefined", "undefined">>

Num(n) == <<n>>

Str(s) == <<s>>

Obj(o) == <<o>>

Val(v) == v[1]

\* v ?? d
Nullish(v, d) == IF v = Null \/ v = Undef THEN d ELSE v

\* v || d for a field holding a number
OrNum(v, d) == IF v = Null \/ v = Undef \/ v = Num(0) THEN d ELSE v

\* v || d for a field holding a string
OrStr(v, d) == IF v = Null \/ v = Undef \/ v = Str("") THEN d ELSE v

\* v || d for a memo (a string of characters)
OrMemo(v, d) == IF v = Null \/ v = Undef \/ v = Str(<<>>) THEN d ELSE v

\* String.prototype.trim on a string of characters
RECURSIVE TrimLeft(_)
TrimLeft(s) == IF s # <<>> /\ Head(s) = " " THEN TrimLeft(Tail(s)) ELSE s

RECURSIVE TrimRight(_)
TrimRight(s) ==
  IF s # <<>> /\ s[Len(s)] = " " THEN TrimRight(SubSeq(s, 1, Len(s) - 1)) ELSE s

Trim(s) == TrimRight(TrimLeft(s))

\* new Date().toISOString(): the clock's reading
Now == Str("2024-01-01T00:00:00.000Z")

(* ---------------------------------------------------------------------- *)
(* utils/validation.js                                                     *)
(* ---------------------------------------------------------------------- *)

\* memo is a JavaScript value; a valid memo is a string within the bound
validateMemo(memo) ==
  IF memo = Null \/ memo = Undef THEN [valid |-> FALSE, error |-> "memo-type"]
  ELSE IF Len(Val(memo)) > MEMO_MAX_LENGTH
       THEN [valid |-> FALSE, error |-> "memo-length"]
       ELSE [valid |-> TRUE, error |-> "none"]

\* mutant: the cap compared with > instead of >=
validatePointCountOffByOne(currentCount) ==
  IF currentCount > MAX_POINTS
  THEN [valid |-> FALSE, error |-> "count"]
  ELSE [valid |-> TRUE, error |-> "none"]

validatePointCount(currentCount) ==
  IF currentCount >= MAX_POINTS
  THEN [valid |-> FALSE, error |-> "count"]
  ELSE [valid |-> TRUE, error |-> "none"]

\* mutant: the lower bound of the range is not checked
validateDistanceNoLowerBound(value) ==
  IF Val(value) > MAX_DISTANCE
  THEN [valid |-> FALSE, error |-> "distance-too-large"]
  ELSE [valid |-> TRUE, error |-> "none"]

\* value is a number (Number(value) of a number is the number itself)
validateDistance(value) ==
  IF Val(value) < 0 THEN [valid |-> FALSE, error |-> "distance-negative"]
  ELSE IF Val(value) > MAX_DISTANCE
       THEN [valid |-> FALSE, error |-> "distance-too-large"]
       ELSE [valid |-> TRUE, error |-> "none"]

(* ---------------------------------------------------------------------- *)
(* PointManager                                                            *)
(* ---------------------------------------------------------------------- *)

NoCalibration == [pixelsPerMeter |-> Null, referenceSegment |-> Null]

\* what an operation returned: { success, error | errors } or nothing (void)
Result(op, success, error) ==
  [op |-> op, success |-> success, error |-> error, void |-> FALSE]

VoidResult(op) ==
  [op |-> op, success |-> FALSE, error |-> "none", void |-> TRUE]

\* the point object addPoint builds
NewPoint(id, screenX, screenY, memo) ==
  [id |-> id, screenX |-> screenX, screenY |-> screenY,
   memo |-> Str(Trim(Val(memo))), createdAt |-> Now,
   distanceToNext |-> Null, heading |-> Null, elevation |-> Null,
   directionSource |-> Null, sensorLevel |-> Null]

\* JavaScript indices start at 0: the point at index i is points[i + 1]
At(ps, i) == ps[i + 1]

\* Array.prototype.findIndex(p => p.id === id), -1 when there is none
FindIndex(ps, id) ==
  IF \E k \in 1..Len(ps) : ps[k].id = id
  THEN (CHOOSE k \in 1..Len(ps) :
          ps[k].id = id /\ \A j \in 1..(k - 1) : ps[j].id # id) - 1
  ELSE -1

\* Array.prototype.splice(index, 1)
Splice(ps, i) == SubSeq(ps, 1, i) \o SubSeq(ps, i + 2, Len(ps))

\* _notify: every listener is called once with a copy of the array
notify(ps) ==
  /\ notified' = 1
  /\ delivered' = ps

\* mutant: the subscribers are called on the way out
NotifiedOnReturn ==
  /\ notified' = 1
  /\ UNCHANGED delivered

\* an operation that returns before it reaches _notify, or never calls it
Silent ==
  /\ notified' = 0
  /\ UNCHANGED delivered

\* a subscriber that has held on to no snapshot
NothingKept == [held |-> FALSE, atDelivery |-> <<>>, now |-> <<>>]

\* the SensorManager as its constructor leaves it, init() not yet called
NewSensor ==
  [heading |-> Null, elevation |-> Null, level |-> 5,
   hasCompass |-> FALSE, hasGyro |-> FALSE, hasAccel |-> FALSE,
   compassAccuracy |-> Null, permissionGranted |-> FALSE,
   gyroHeading |-> Null, lastGyroTime |-> Null,
   listening |-> FALSE, notifications |-> 0,
   subscribers |-> 0, reached |-> 0, disposed |-> FALSE, reading |-> Null,
   pc |-> "constructed", result |-> Null,
   gated |-> FALSE, orientationAllowed |-> FALSE, motionAllowed |-> FALSE,
   answers |-> {}, events |-> 0, eventsAtSettle |-> 0, compass |-> Null,
   initial |-> Null]

\* no compass-offset capture has been started
NewCapture ==
  [pc |-> "idle", absolute |-> FALSE, fallback |-> FALSE, timer |-> FALSE,
   resolved |-> 0, offset |-> Null]

\* the App before a mode is chosen: no WebXRManager, no distance prompt.
\* placed counts the anchors placed so far and numbers them; pointOf is, for
\* each of them, the id of the point _onARTap added for it (null when
\* addPoint failed).
NewAR ==
  [mode |-> "select", session |-> "none", anchors |-> <<>>,
   waiting |-> {}, resolve |-> Null, dialog |-> FALSE,
   placed |-> 0, pointOf |-> <<>>]

Init ==
  /\ points = <<>>
  /\ nextId = 1
  /\ calibration = NoCalibration
  /\ storage = Null
  /\ ret = VoidResult("constructor")
  /\ notified = 0
  /\ delivered = <<>>
  /\ kept = NothingKept
  /\ issued = 0
  /\ issuedSinceReset = 0
  /\ sensor = NewSensor
  /\ capture = NewCapture
  /\ ar = NewAR

\* mutant: the counter is read and not incremented
NextIdNotIncremented(n) == n

\* this._nextId after "id: this._nextId++"
NextIdAfterAdd(n) == n + 1

addPoint(screenX, screenY, memo) ==
  LET countResult == validatePointCount(Len(points))
      memoResult == validateMemo(memo)
  IN /\ (countResult.valid /\ memoResult.valid) => nextId <= MaxId
     /\ UNCHANGED <<calibration, storage>>
     /\ IF ~countResult.valid
        THEN /\ ret' = Result("addPoint", FALSE, countResult.error)
             /\ Silent
             /\ UNCHANGED <<points, nextId>>
        ELSE IF ~memoResult.valid
        THEN /\ ret' = Result("addPoint", FALSE, memoResult.error)
             /\ Silent
             /\ UNCHANGED <<points, nextId>>
        ELSE /\ points' = Append(points, NewPoint(nextId, screenX, screenY, memo))
             /\ nextId' = NextIdAfterAdd(nextId)
             /\ notify(points')
             /\ ret' = Result("addPoint", TRUE, "none")

setSegmentDistance(index, distance) ==
  /\ UNCHANGED <<nextId, calibration, storage>>
     /\ IF index < 0 \/ index >= Len(points) - 1
        THEN /\ ret' = Result("setSegmentDistance", FALSE, "segment")
             /\ Silent
             /\ UNCHANGED points
        ELSE IF distance # Null /\ ~validateDistance(distance).valid
        THEN /\ ret' = Result("setSegmentDistance", FALSE,
                              validateDistance(distance).error)
             /\ Silent
             /\ UNCHANGED points
        ELSE /\ points' = [points EXCEPT ![index + 1].distanceToNext = distance]
             /\ notify(points')
             /\ ret' = Result("setSegmentDistance", TRUE, "none")

setPointDirection(index, heading, elevation, source, level) ==
  /\ UNCHANGED <<nextId, calibration, storage>>
     /\ IF index < 0 \/ index >= Len(points)
        THEN /\ ret' = Result("setPointDirection", FALSE, "index")
             /\ Silent
             /\ UNCHANGED points
        ELSE /\ points' = [points EXCEPT ![index + 1].heading = heading,
                                         ![index + 1].elevation = elevation,
                                         ![index + 1].directionSource = source,
                                         ![index + 1].sensorLevel = level]
             /\ notify(points')
             /\ ret' = Result("setPointDirection", TRUE, "none")

updateMemo(id, memo) ==
  LET index == FindIndex(points, id)
      result == validateMemo(memo)
  IN /\ UNCHANGED <<nextId, calibration, storage>>
     /\ IF index = -1
        THEN /\ ret' = Result("updateMemo", FALSE, "not-found")
             /\ Silent
             /\ UNCHANGED points
        ELSE IF ~result.valid
        THEN /\ ret' = Result("updateMemo", FALSE, result.error)
             /\ Silent
             /\ UNCHANGED points
        ELSE /\ points' = [points EXCEPT ![index + 1].memo = Str(Trim(Val(memo)))]
             /\ notify(points')
             /\ ret' = Result("updateMemo", TRUE, "none")

\* data: a record whose absent properties are Undef
UpdatedPoint(p, data, isTerminal) ==
  [p EXCEPT
     !.memo = IF data.memo # Undef THEN Str(Trim(Val(data.memo))) ELSE @,
     !.distanceToNext =
        IF data.distance # Undef /\ ~isTerminal THEN data.distance ELSE @,
     !.heading = IF data.heading # Undef THEN data.heading ELSE @,
     !.elevation = IF data.elevation # Undef THEN data.elevation ELSE @,
     !.directionSource =
        IF data.directionSource # Undef THEN data.directionSource ELSE @]

updatePointByIndex(index, data) ==
  /\ UNCHANGED <<nextId, calibration, storage>>
     /\ IF index < 0 \/ index >= Len(points)
        THEN /\ ret' = Result("updatePointByIndex", FALSE, "none")
             /\ Silent
             /\ UNCHANGED points
        ELSE /\ points' = [points EXCEPT ![index + 1] =
                             UpdatedPoint(@, data, ~(index < Len(points) - 1))]
             /\ notify(points')
             /\ ret' = Result("updatePointByIndex", TRUE, "none")

\* mutant: the distance of the point before the predecessor is cleared
UndonePointsOffByOne(ps) ==
  LET cleared == IF Len(ps) >= 3
                 THEN [ps EXCEPT ![Len(ps) - 2].distanceToNext = Null]
                 ELSE ps
  IN SubSeq(cleared, 1, Len(ps) - 1)

\* mutant: the last point is popped and the predecessor left as it was
UndonePointsKeepDistance(ps) == SubSeq(ps, 1, Len(ps) - 1)

\* the array after undoLastPoint's two statements
UndonePoints(ps) ==
  LET cleared == IF Len(ps) >= 2
                 THEN [ps EXCEPT ![Len(ps) - 1].distanceToNext = Null]
                 ELSE ps
  IN SubSeq(cleared, 1, Len(ps) - 1)

undoLastPoint ==
  /\ UNCHANGED <<nextId, calibration, storage>>
  /\ IF Len(points) = 0
     THEN /\ ret' = Result("undoLastPoint", FALSE, "none")
          /\ Silent
          /\ UNCHANGED points
     ELSE /\ points' = UndonePoints(points)
          /\ notify(points')
          /\ ret' = Result("undoLastPoint", TRUE, "none")

\* mutant: the predecessor fix guarded by index < length
RemovedPointsStrictGuard(ps, index) ==
  LET spliced == Splice(ps, index)
  IN IF index > 0 /\ index < Len(spliced)
     THEN [spliced EXCEPT ![index].distanceToNext = Null]
     ELSE spliced

\* mutant: the point is spliced out and the predecessor left as it was
RemovedPointsNoFix(ps, index) == Splice(ps, index)

\* the array after removePoint's splice and predecessor fix, index >= 0
RemovedPoints(ps, index) ==
  LET spliced == Splice(ps, index)
  IN IF index > 0 /\ index <= Len(spliced)
     THEN [spliced EXCEPT ![index].distanceToNext = Null]
     ELSE spliced

removePoint(id) ==
  LET index == FindIndex(points, id)
  IN /\ UNCHANGED <<nextId, calibration, storage>>
     /\ IF index = -1
        THEN /\ ret' = Result("removePoint", FALSE, "not-found")
             /\ Silent
             /\ UNCHANGED points
        ELSE /\ points' = RemovedPoints(points, index)
             /\ notify(points')
             /\ ret' = Result("removePoint", TRUE, "none")

clear ==
  /\ points' = <<>>
  /\ nextId' = 1
  /\ calibration' = NoCalibration
  /\ notify(points')
  /\ ret' = VoidResult("clear")
  /\ UNCHANGED storage

(* ---------------------------------------------------------------------- *)
(* Calibration (numbers that are not integers are exact fractions <<n, d>>) *)
(* ---------------------------------------------------------------------- *)

RECURSIVE Gcd(_, _)
Gcd(a, b) == IF b = 0 THEN a ELSE Gcd(b, a % b)

\* the fraction n / d, d > 0, in lowest terms
Frac(n, d) ==
  LET g == Gcd(IF n < 0 THEN -n ELSE n, d)
  IN IF n = 0 THEN <<0, 1>> ELSE <<n \div g, d \div g>>

\* Math.sqrt of a perfect square
Sqrt(n) == CHOOSE r \in 0..n : r * r = n

\* utils/math.js pixelDistance, on integer pixel coordinates
pixelDistance(x1, y1, x2, y2) ==
  Sqrt((x2 - x1) * (x2 - x1) + (y2 - y1) * (y2 - y1))

\* the calibration object calibrate builds; realDistance is an integer > 0
Calibrated(ps, segmentIndex, realDistance) ==
  LET p1 == At(ps, segmentIndex)
      p2 == At(ps, segmentIndex + 1)
      px == pixelDistance(Val(p1.screenX), Val(p1.screenY),
                          Val(p2.screenX), Val(p2.screenY))
  IN [pixelsPerMeter |-> Num(Frac(px, realDistance)),
      referenceSegment |-> Num(segmentIndex)]

calibrate(segmentIndex, realDistance) ==
  /\ UNCHANGED <<points, nextId, storage>>
  /\ Silent
  /\ ret' = VoidResult("calibrate")
  /\ IF segmentIndex < 0 \/ segmentIndex >= Len(points) - 1
     THEN UNCHANGED calibration
     ELSE IF realDistance <= 0
     THEN UNCHANGED calibration
     ELSE calibration' = Calibrated(points, segmentIndex, realDistance)

\* what estimateDistance returns: null, or px / pixelsPerMeter as a fraction
\* (!pixelsPerMeter is true of null and of 0)
EstimatedDistance(ps, cal, index) ==
  IF cal.pixelsPerMeter = Null \/ cal.pixelsPerMeter = Num(<<0, 1>>) THEN Null
  ELSE IF index < 0 \/ index >= Len(ps) - 1 THEN Null
  ELSE LET p1 == At(ps, index)
           p2 == At(ps, index + 1)
           px == pixelDistance(Val(p1.screenX), Val(p1.screenY),
                               Val(p2.screenX), Val(p2.screenY))
           ppm == Val(cal.pixelsPerMeter)
       IN Num(Frac(px * ppm[2], ppm[1]))

estimateDistance(index) ==
  /\ ret' = [op |-> "estimateDistance", success |-> TRUE, error |-> "none",
             void |-> FALSE,
             value |-> EstimatedDistance(points, calibration, index)]
  /\ Silent
  /\ UNCHANGED <<points, nextId, calibration, storage>>

(* ---------------------------------------------------------------------- *)
(* loadPoints and the project document                                     *)
(* ---------------------------------------------------------------------- *)

\* mutant: distanceToNext defaulted with || as the neighbouring fields are
LoadedPointFalsyDistance(p) ==
  [id |-> p.id,
   screenX |-> OrNum(p.screenX, Num(0)),
   screenY |-> OrNum(p.screenY, Num(0)),
   memo |-> OrMemo(p.memo, Str(<<>>)),
   createdAt |-> OrStr(p.createdAt, Now),
   distanceToNext |-> OrNum(p.distanceToNext, Null),
   heading |-> Nullish(p.heading, Null),
   elevation |-> Nullish(p.elevation, Null),
   directionSource |-> OrStr(p.directionSource, Null),
   sensorLevel |-> Nullish(p.sensorLevel, Null)]

\* the object loadPoints builds from one element of its argument
LoadedPoint(p) ==
  [id |-> p.id,
   screenX |-> OrNum(p.screenX, Num(0)),
   screenY |-> OrNum(p.screenY, Num(0)),
   memo |-> OrMemo(p.memo, Str(<<>>)),
   createdAt |-> OrStr(p.createdAt, Now),
   distanceToNext |-> Nullish(p.distanceToNext, Null),
   heading |-> Nullish(p.heading, Null),
   elevation |-> Nullish(p.elevation, Null),
   directionSource |-> OrStr(p.directionSource, Null),
   sensorLevel |-> Nullish(p.sensorLevel, Null)]

LoadedPoints(pts) == [k \in 1..Len(pts) |-> LoadedPoint(pts[k])]

\* points.reduce((max, p) => Math.max(max, p.id), 0)
RECURSIVE MaxIdOf(_)
MaxIdOf(ps) ==
  IF ps = <<>> THEN 0
  ELSE LET m == MaxIdOf(SubSeq(ps, 1, Len(ps) - 1))
           id == ps[Len(ps)].id
       IN IF id > m THEN id ELSE m

\* mutant: the counter re-derived from the number of points
LoadedNextIdByCount(ps) == Len(ps) + 1

\* this._nextId after loadPoints
LoadedNextId(ps) == MaxIdOf(ps) + 1

\* calibration.pixelsPerMeter || null, on a fraction
OrFrac(v, d) == IF v = Null \/ v = Undef \/ v = Num(<<0, 1>>) THEN d ELSE v

LoadedCalibration(cal) ==
  [pixelsPerMeter |-> OrFrac(cal.pixelsPerMeter, Null),
   referenceSegment |-> Nullish(cal.referenceSegment, Null)]

\* the effect of loadPoints on the manager
LoadInto(pts, cal) ==
  /\ points' = LoadedPoints(pts)
  /\ nextId' = LoadedNextId(LoadedPoints(pts))
  /\ calibration' = IF cal = Null \/ cal = Undef
                    THEN calibration
                    ELSE LoadedCalibration(Val(cal))
  /\ notify(points')

loadPoints(pts, cal) ==
  /\ LoadInto(pts, cal)
  /\ ret' = VoidResult("loadPoints")
  /\ UNCHANGED storage

\* JSON.stringify followed by JSON.parse, on one property value: an
\* undefined property is left out of the text and is absent after parsing
JsonValue(v) == IF v = Undef THEN Undef ELSE v

JsonPoint(p) ==
  [id |-> p.id,
   screenX |-> JsonValue(p.screenX), screenY |-> JsonValue(p.screenY),
   memo |-> JsonValue(p.memo), createdAt |-> JsonValue(p.createdAt),
   distanceToNext |-> JsonValue(p.distanceToNext),
   heading |-> JsonValue(p.heading), elevation |-> JsonValue(p.elevation),
   directionSource |-> JsonValue(p.directionSource),
   sensorLevel |-> JsonValue(p.sensorLevel)]

JsonPoints(ps) == [k \in 1..Len(ps) |-> JsonPoint(ps[k])]

\* the document ProjectStorage.save writes (the fields the manager reads back)
ProjectDocument(ps, cal) ==
  [calibration |-> [pixelsPerMeter |-> JsonValue(cal.pixelsPerMeter),
                    referenceSegment |-> JsonValue(cal.referenceSegment)],
   points |-> JsonPoints(ps)]

\* App._saveProject: storage.save(name, metadata, points, calibration)
saveProject ==
  /\ storage' = Obj(ProjectDocument(points, calibration))
  /\ ret' = Result("saveProject", TRUE, "none")
  /\ Silent
  /\ UNCHANGED pmVars

\* App._loadProject: storage.load(), then loadPoints(data.points, data.calibration)
loadProject ==
  /\ UNCHANGED storage
  /\ IF storage = Null
     THEN /\ ret' = Result("loadProject", FALSE, "no-project")
          /\ Silent
          /\ UNCHANGED pmVars
     ELSE /\ LoadInto(Val(storage).points, Obj(Val(storage).calibration))
          /\ ret' = Result("loadProject", TRUE, "none")

(* ---------------------------------------------------------------------- *)
(* utils/math.js pointsToPositions and the exporters                       *)
(* Coordinates are exact fractions <<n, d>>; headings and elevations are   *)
(* whole quarter turns, where Math.sin and Math.cos are -1, 0 or 1.        *)
(* ---------------------------------------------------------------------- *)

\* the distance pointsToPositions puts in place of an unmeasured one
DEFAULT_DISTANCE == 1

\* the spacing DXFExporter puts in place of an unmeasured distance
DXF_DEFAULT_SPACING == 1

DISTANCE_PRECISION == 2

FracAdd(a, b) == Frac(a[1] * b[2] + b[1] * a[2], a[2] * b[2])

\* Math.sin(deg * DEG), deg a multiple of 90
SinDeg(deg) ==
  CASE deg % 360 = 0 -> 0
    [] deg % 360 = 90 -> 1
    [] deg % 360 = 180 -> 0
    [] deg % 360 = 270 -> -1

\* Math.cos(deg * DEG), deg a multiple of 90
CosDeg(deg) ==
  CASE deg % 360 = 0 -> 1
    [] deg % 360 = 90 -> 0
    [] deg % 360 = 180 -> -1
    [] deg % 360 = 270 -> 0

Origin == [x |-> <<0, 1>>, y |-> <<0, 1>>, z |-> <<0, 1>>]

\* mutant: the distance defaulted with || , which replaces a measured 0 too
SegmentLengthFalsy(p1, default) ==
  IF p1.distanceToNext = Null \/ p1.distanceToNext = Undef
     \/ p1.distanceToNext = Num(0)
  THEN default
  ELSE Val(p1.distanceToNext)

\* d: the segment's distance, or the default when it is null or undefined
SegmentLength(p1, default) ==
  IF p1.distanceToNext # Null /\ p1.distanceToNext # Undef
  THEN Val(p1.distanceToNext)
  ELSE default

\* mutant: the screen fallback taken from 1 pixel on
ScreenFallbackFromOnePixel(screenDist) == screenDist >= 1

\* screenDist > 1
ScreenFallback(screenDist) == screenDist > 1

\* one pass of the loop body after the push: (x, y, z) moved along the
\* segment from p1 to p2
Advance(pos, p1, p2, default) ==
  LET d == SegmentLength(p1, default)
  IN IF p1.heading # Null /\ p1.heading # Undef
     THEN LET h == Val(p1.heading)
              e == Val(OrNum(p1.elevation, Num(0)))
              horiz == d * CosDeg(e)
          IN [x |-> FracAdd(pos.x, <<horiz * SinDeg(h), 1>>),
              y |-> FracAdd(pos.y, <<d * SinDeg(e), 1>>),
              z |-> FracAdd(pos.z, <<horiz * CosDeg(h), 1>>)]
     ELSE LET dx == Val(p2.screenX) - Val(p1.screenX)
              dy == Val(p2.screenY) - Val(p1.screenY)
              screenDist == Sqrt(dx * dx + dy * dy)
          IN IF ScreenFallback(screenDist)
             THEN [x |-> FracAdd(pos.x, Frac(dx * d, screenDist)),
                   y |-> pos.y,
                   z |-> FracAdd(pos.z, Frac(dy * d, screenDist))]
             ELSE [x |-> FracAdd(pos.x, <<d, 1>>), y |-> pos.y, z |-> pos.z]

\* the positions pushed by the first k passes of the loop
RECURSIVE PositionsUpTo(_, _, _)
PositionsUpTo(ps, k, default) ==
  IF k = 0 THEN <<>>
  ELSE IF k = 1 THEN <<Origin>>
  ELSE LET before == PositionsUpTo(ps, k - 1, default)
       IN Append(before, Advance(before[k - 1], ps[k - 1], ps[k], default))

Positions(ps, default) == PositionsUpTo(ps, Len(ps), default)

pointsToPositions(ps) == Positions(ps, DEFAULT_DISTANCE)

\* Viewer3D.updateRoute: the positions of the manager's points are computed
updateRoute ==
  /\ ret' = [op |-> "updateRoute", success |-> TRUE, error |-> "none",
             void |-> FALSE,
             value |-> IF Len(points) > 0 THEN pointsToPositions(points)
                       ELSE Null]
  /\ Silent
  /\ UNCHANGED <<points, nextId, calibration, storage>>

\* Number.prototype.toFixed(DISTANCE_PRECISION) of a fraction: the number of
\* hundredths nearest to it, halves away from zero
ToFixed(f) ==
  LET scale == 10 ^ DISTANCE_PRECISION
      n == IF f[1] < 0 THEN -f[1] ELSE f[1]
      q == (2 * n * scale + f[2]) \div (2 * f[2])
  IN IF f[1] < 0 THEN -q ELSE q

\* the "v x y z" lines of OBJExporter._buildObj
ObjVertices(ps, default) ==
  LET positions == Positions(ps, default)
  IN [k \in 1..Len(ps) |->
        <<ToFixed(positions[k].x), ToFixed(positions[k].y),
          ToFixed(positions[k].z)>>]

\* App: objExporter.export(pointManager.points); nothing is written for an
\* empty route
exportObj ==
  /\ ret' = IF Len(points) = 0
            THEN Result("exportObj", FALSE, "no-points")
            ELSE [op |-> "exportObj", success |-> TRUE, error |-> "none",
                  void |-> FALSE,
                  value |-> ObjVertices(points, DEFAULT_DISTANCE)]
  /\ Silent
  /\ UNCHANGED <<points, nextId, calibration, storage>>

\* the cumulative x of DXFExporter._buildDxf before point k (1-based)
RECURSIVE DxfX(_, _, _)
DxfX(ps, k, default) ==
  IF k <= 1 THEN 0
  ELSE DxfX(ps, k - 1, default) +
       (IF ps[k - 1].distanceToNext # Null THEN Val(ps[k - 1].distanceToNext)
        ELSE default)

\* the VERTEX entries (group 10) of DXFExporter._buildDxf
DxfVertices(ps, default) ==
  [k \in 1..Len(ps) |-> ToFixed(<<DxfX(ps, k, default), 1>>)]

\* App: dxfExporter.export(pointManager.points)
exportDxf ==
  /\ ret' = IF Len(points) = 0
            THEN Result("exportDxf", FALSE, "no-points")
            ELSE [op |-> "exportDxf", success |-> TRUE, error |-> "none",
                  void |-> FALSE,
                  value |-> DxfVertices(points, DXF_DEFAULT_SPACING)]
  /\ Silent
  /\ UNCHANGED <<points, nextId, calibration, storage>>

(* ---------------------------------------------------------------------- *)
(* SensorManager                                                           *)
(* Angles are exact fractions <<n, d>> of a degree. The fields of the      *)
(* object keep their names; pc is the place init() has reached, and        *)
(* gated, orientationAllowed, motionAllowed and events describe the        *)
(* platform: whether it has requestPermission, which events the browser    *)
(* will deliver, and how many it has delivered; compass is the heading its *)
(* compass reads where a specification holds it constant, and initial the  *)
(* value last passed to setInitialHeading.                                 *)
(* ---------------------------------------------------------------------- *)

\* the number of sensor events the platform delivers
MaxEvents == 3

\* this._filterAlpha = 0.96
FilterAlpha == <<24, 25>>

FracSub(a, b) == Frac(a[1] * b[2] - b[1] * a[2], a[2] * b[2])

FracMul(a, b) == Frac(a[1] * b[1], a[2] * b[2])

FracLess(a, b) == a[1] * b[2] < b[1] * a[2]

\* a % 360 in JavaScript: the sign of the result is that of a
Mod360(a) ==
  IF a[1] >= 0 THEN Frac(a[1] % (360 * a[2]), a[2])
  ELSE Frac(-((-a[1]) % (360 * a[2])), a[2])

\* _clamp(v, lo, hi)
Clamp(v, lo, hi) ==
  LET m == IF FracLess(v, hi) THEN v ELSE hi
  IN IF FracLess(lo, m) THEN m ELSE lo

\* mutant: the difference is taken without wrapping it to [-180, 180)
FuseNoWrap(compass, gyro) ==
  Mod360(FracAdd(FracAdd(compass, FracMul(FilterAlpha, FracSub(gyro, compass))),
                 <<360, 1>>))

\* _fuse(compass, gyro)
Fuse(compass, gyro) ==
  LET diff == FracSub(Mod360(FracAdd(FracSub(gyro, compass), <<540, 1>>)),
                      <<180, 1>>)
  IN Mod360(FracAdd(FracAdd(compass, FracMul(FilterAlpha, diff)), <<360, 1>>))

\* _notify: every listener is called once
SensorNotify(s) == [s EXCEPT !.notifications = 1, !.reached = s.subscribers]

\* mutant: the tracked heading is not set to the fused one
ApplyCompassNoSync(s, compassHeading) ==
  LET fused == IF s.gyroHeading # Null /\ s.hasGyro
               THEN Fuse(compassHeading, Val(s.gyroHeading))
               ELSE compassHeading
  IN SensorNotify([s EXCEPT !.heading = Num(fused)])

\* _applyCompass(compassHeading)
ApplyCompass(s, compassHeading) ==
  LET fused == IF s.gyroHeading # Null /\ s.hasGyro
               THEN Fuse(compassHeading, Val(s.gyroHeading))
               ELSE compassHeading
  IN SensorNotify([s EXCEPT !.heading = Num(fused), !.gyroHeading = Num(fused)])

\* _determineLevel
DetermineLevel(s) ==
  IF s.hasCompass /\ s.hasGyro /\ s.hasAccel THEN 1
  ELSE IF s.hasCompass /\ s.hasAccel THEN 2
  ELSE IF s.hasGyro /\ s.hasAccel THEN 3
  ELSE IF s.hasAccel THEN 4
  ELSE 5

\* levelDescription
LevelDescription(level) ==
  CASE level = 1 -> "compass+gyro+accel"
    [] level = 2 -> "compass+accel"
    [] level = 3 -> "gyro+accel"
    [] level = 4 -> "accel"
    [] level = 5 -> "manual"

\* mutant: the listeners are registered whatever the permission
StartListeningAlways(s) == [s EXCEPT !.listening = TRUE]

\* _startListening: nothing is registered on a platform with
\* requestPermission when permission was not granted
StartListening(s) ==
  IF ~s.permissionGranted /\ s.gated THEN s ELSE [s EXCEPT !.listening = TRUE]

\* init() from the return of _requestPermission to the settle wait
AfterPermission(s) == [StartListening(s) EXCEPT !.pc = "settling"]

\* the catch of _requestPermission: the error is logged and init() goes on
PermissionError(s) == AfterPermission(s)

\* init() is called: _requestPermission runs to its first await; a platform
\* without requestPermission has none, and delivers whatever events it has
init ==
  /\ sensor.pc = "constructed"
  /\ \E gated \in BOOLEAN :
       sensor' =
         IF gated
         THEN [sensor EXCEPT !.gated = TRUE, !.pc = "askOrientation"]
         ELSE AfterPermission([sensor EXCEPT !.permissionGranted = TRUE,
                                             !.orientationAllowed = TRUE,
                                             !.motionAllowed = TRUE])

\* DeviceOrientationEvent.requestPermission() settles
answerOrientation(r) ==
  /\ sensor.pc = "askOrientation"
  /\ LET s == [sensor EXCEPT !.answers = @ \cup {r},
                             !.orientationAllowed = (r = "granted")]
     IN sensor' = IF r = "throws" THEN PermissionError(s)
                  ELSE IF r # "granted" THEN AfterPermission(s)
                  ELSE [s EXCEPT !.pc = "askMotion"]

\* DeviceMotionEvent.requestPermission() settles
answerMotion(r) ==
  /\ sensor.pc = "askMotion"
  /\ LET s == [sensor EXCEPT !.answers = @ \cup {r},
                             !.motionAllowed = (r = "granted")]
     IN sensor' = IF r = "throws" THEN PermissionError(s)
                  ELSE IF r # "granted" THEN AfterPermission(s)
                  ELSE AfterPermission([s EXCEPT !.permissionGranted = TRUE])

\* the 800 ms wait of init() ends: the level is determined and returned
settle ==
  /\ sensor.pc = "settling"
  /\ sensor' = [sensor EXCEPT
                  !.level = DetermineLevel(sensor),
                  !.result = Obj([level |-> DetermineLevel(sensor),
                                  description |->
                                    LevelDescription(DetermineLevel(sensor))]),
                  !.eventsAtSettle = sensor.events,
                  !.pc = "done"]

\* the platform delivers an event to a registered listener
Delivered(allowed) ==
  /\ sensor.listening
  /\ allowed
  /\ sensor.events < MaxEvents

\* 90 - e.beta, clamped
ElevationOfBeta(beta) == Num(Clamp(<<90 - Val(beta), 1>>, <<-90, 1>>, <<90, 1>>))

\* _onAbsoluteOrientation(e)
onAbsoluteOrientation(e) ==
  /\ Delivered(sensor.orientationAllowed)
  /\ LET s == [sensor EXCEPT !.events = @ + 1, !.notifications = 0,
                             !.reached = 0]
     IN sensor' =
          IF e.alpha = Null \/ e.alpha = Undef THEN s
          ELSE LET compass == Mod360(<<360 - Val(e.alpha), 1>>)
                   applied == ApplyCompass([s EXCEPT !.hasCompass = TRUE], compass)
               IN IF e.beta # Null /\ e.beta # Undef
                  THEN [applied EXCEPT !.elevation = ElevationOfBeta(e.beta)]
                  ELSE applied

\* _onOrientation(e)
onOrientation(e) ==
  /\ Delivered(sensor.orientationAllowed)
  /\ LET s == [sensor EXCEPT !.events = @ + 1, !.notifications = 0,
                             !.reached = 0]
         applied ==
           IF e.webkitCompassHeading # Null /\ e.webkitCompassHeading # Undef
           THEN ApplyCompass(
                  [s EXCEPT !.hasCompass = TRUE,
                            !.compassAccuracy =
                               Nullish(e.webkitCompassAccuracy, Null)],
                  <<Val(e.webkitCompassHeading), 1>>)
           ELSE s
     IN sensor' =
          IF e.beta # Null /\ e.beta # Undef /\ applied.elevation = Null
          THEN [applied EXCEPT !.elevation = ElevationOfBeta(e.beta)]
          ELSE applied

\* Math.atan2(a, b) in degrees, b >= 0, for the directions of the inputs
Atan2Deg(a, b) ==
  IF a = 0 THEN 0
  ELSE IF b = 0 THEN (IF a > 0 THEN 90 ELSE -90)
  ELSE IF a = b THEN 45
  ELSE -45

Abs(n) == IF n < 0 THEN -n ELSE n

\* _onMotion(e); now is performance.now() in ms
onMotion(e, now) ==
  /\ Delivered(sensor.motionAllowed)
  /\ sensor.lastGyroTime # Null => Val(sensor.lastGyroTime) < now
  /\ LET s == [sensor EXCEPT !.events = @ + 1, !.notifications = 0,
                             !.reached = 0]
         rr == e.rotationRate
         g == e.accelerationIncludingGravity
         gyro ==
           IF rr # Null /\ Val(rr).alpha # Null
           THEN [s EXCEPT
                   !.hasGyro = TRUE,
                   !.gyroHeading =
                      IF s.lastGyroTime # Null /\ s.gyroHeading # Null
                      THEN Num(Mod360(FracAdd(
                             FracAdd(Val(s.gyroHeading),
                                     Frac(Val(Val(rr).alpha) *
                                          (now - Val(s.lastGyroTime)), 1000)),
                             <<360, 1>>)))
                      ELSE @,
                   !.lastGyroTime = Num(now)]
           ELSE s
     IN sensor' =
          IF g # Null /\ Val(g).y # Null /\ Val(g).z # Null
          THEN [gyro EXCEPT
                  !.hasAccel = TRUE,
                  !.elevation =
                     Num(Clamp(<<Atan2Deg(-Val(Val(g).z), Abs(Val(Val(g).y))), 1>>,
                               <<-90, 1>>, <<90, 1>>))]
          ELSE gyro

\* Math.round(f * 10) / 10; Math.round takes a half upwards
Round1(f) == Frac((20 * f[1] + f[2]) \div (2 * f[2]), 10)

\* _sourceName
SourceName(s) ==
  IF s.hasCompass /\ s.hasGyro THEN "fusion"
  ELSE IF s.hasCompass THEN "compass"
  ELSE IF s.hasGyro THEN "gyro"
  ELSE IF s.hasAccel THEN "accel"
  ELSE "manual"

\* the object captureReading() returns
Reading(s) ==
  [heading |-> IF s.heading # Null THEN Num(Round1(Val(s.heading))) ELSE Null,
   elevation |-> IF s.elevation # Null THEN Num(Round1(Val(s.elevation)))
                 ELSE Null,
   source |-> SourceName(s),
   level |-> s.level,
   accuracy |-> s.compassAccuracy]

\* captureReading(), called once init() has returned; reading is what the
\* caller holds
captureReading ==
  /\ sensor.pc = "done"
  /\ sensor' = [sensor EXCEPT !.reading = Obj(Reading(sensor))]

\* mutant: one % only, which leaves a negative value negative
NormalizedOnce(deg) == Mod360(deg)

\* ((deg % 360) + 360) % 360
Normalized(deg) == Mod360(FracAdd(Mod360(deg), <<360, 1>>))

\* setInitialHeading(deg)
setInitialHeading(deg) ==
  sensor' = [sensor EXCEPT !.heading = Num(Normalized(deg)),
                           !.gyroHeading = Num(Normalized(deg)),
                           !.initial = Num(deg)]

\* onChange(fn): the App registers its one listener
onChange ==
  /\ sensor.subscribers = 0
  /\ sensor' = [sensor EXCEPT !.subscribers = @ + 1]

\* dispose(): the handlers that were registered are removed from window and
\* the list of listeners is emptied; nothing records that it was called
\* (disposed is kept for the properties only). It is called on a manager
\* whose init() has been called, at any moment from then on.
dispose ==
  /\ sensor.pc # "constructed"
  /\ sensor' = [sensor EXCEPT !.listening = FALSE, !.subscribers = 0,
                              !.notifications = 0, !.reached = 0,
                              !.disposed = TRUE]

\* an operation of the SensorManager leaves the PointManager alone
SensorOnly ==
  UNCHANGED <<points, nextId, calibration, storage, ret, notified, delivered,
              kept, issued, issuedSinceReset, capture, ar>>

(* ---------------------------------------------------------------------- *)
(* AR mode: WebXRManager's compass-offset capture and anchors, and the     *)
(* App's handlers for an anchor tap, the distance dialog and undo          *)
(* ---------------------------------------------------------------------- *)

\* the number of anchors placed in one run
MaxAnchors == 3

\* a step of AR mode that calls no operation of the PointManager
ARQuiet ==
  UNCHANGED <<points, nextId, calibration, storage, ret, notified, delivered>>

\* App._startARMode up to the first await of WebXRManager.start: the
\* manager is created and _captureCompassHeading registers its two
\* listeners and starts its timer
startARMode ==
  /\ ar.mode = "select"
  /\ ar' = [ar EXCEPT !.mode = "ar", !.session = "starting"]
  /\ capture' = [NewCapture EXCEPT !.pc = "waiting", !.absolute = TRUE,
                                   !.fallback = TRUE, !.timer = TRUE]
  /\ ARQuiet

\* e.webkitCompassHeading ?? (360 - e.alpha) % 360, alpha in 0..360
CompassHeading(e) ==
  Nullish(e.webkitCompassHeading, Num((360 - Val(e.alpha)) % 360))

\* resolve(value): the promise keeps the value of the first call
Resolve(cap, value) ==
  [cap EXCEPT !.resolved = @ + 1, !.pc = "resolved",
              !.offset = IF cap.resolved = 0 THEN value ELSE @]

\* onOrientation(e) of _captureCompassHeading
CaptureOnOrientation(cap, e) ==
  IF e.alpha = Null \/ e.alpha = Undef THEN cap
  ELSE Resolve([cap EXCEPT !.timer = FALSE, !.absolute = FALSE,
                           !.fallback = FALSE],
               CompassHeading(e))

\* onFallback(e) of _captureCompassHeading
CaptureOnFallback(cap, e) ==
  IF e.alpha = Null \/ e.alpha = Undef \/ ~e.absolute THEN cap
  ELSE CaptureOnOrientation(cap, e)

\* mutant: the timeout resolves and leaves the listeners registered
TimedOutListening(cap) == Resolve([cap EXCEPT !.timer = FALSE], Num(0))

\* the timeout callback of _captureCompassHeading
TimedOut(cap) ==
  Resolve([cap EXCEPT !.timer = FALSE, !.absolute = FALSE, !.fallback = FALSE],
          Num(0))

\* a deviceorientationabsolute event reaches the listener
captureAbsolute(e) ==
  /\ capture.absolute
  /\ capture' = CaptureOnOrientation(capture, e)
  /\ UNCHANGED ar
  /\ ARQuiet

\* a deviceorientation event reaches the listener
captureFallback(e) ==
  /\ capture.fallback
  /\ capture' = CaptureOnFallback(capture, e)
  /\ UNCHANGED ar
  /\ ARQuiet

\* the 2000 ms timer fires
captureTimeout ==
  /\ capture.timer
  /\ capture' = TimedOut(capture)
  /\ UNCHANGED ar
  /\ ARQuiet

\* WebXRManager.start after the capture: the session is granted and set up
sessionStarts ==
  /\ ar.mode = "ar" /\ ar.session = "starting"
  /\ capture.pc = "resolved"
  /\ ar' = [ar EXCEPT !.session = "running"]
  /\ UNCHANGED capture
  /\ ARQuiet

\* _exitARMode: the manager is stopped, disposed of and dropped
ExitedAR(a) == [a EXCEPT !.mode = "snapshot", !.session = "none",
                         !.anchors = <<>>]

\* WebXRManager.start after the capture: requestSession throws, start
\* returns a failure and _startARMode leaves AR mode
sessionFails ==
  /\ ar.mode = "ar" /\ ar.session = "starting"
  /\ capture.pc = "resolved"
  /\ ar' = ExitedAR(ar)
  /\ UNCHANGED capture
  /\ ARQuiet

\* WebXRManager._onSelect once the anchor is created, and App._onARTap up to
\* its await: the anchor is pushed, a point is added for it and, from the
\* second anchor on, the distance dialog is opened for the segment that
\* ends at it; measured is what getAnchorDistance returns
placeAnchor(measured) ==
  /\ ar.mode = "ar" /\ ar.session = "running"
  /\ ar.placed < MaxAnchors
  /\ addPoint(Num(0), Num(0), Str(<<>>))
  /\ LET anchorIdx == Len(ar.anchors)
         number == ar.placed + 1
         pushed == [ar EXCEPT !.anchors = Append(@, number),
                              !.placed = number,
                              !.pointOf = Append(@, IF ret'.success
                                                    THEN Num(nextId) ELSE Null)]
         call == [segIndex |-> anchorIdx - 1, from |-> ar.anchors[anchorIdx],
                  to |-> number, measured |-> measured, point |-> nextId]
     IN ar' = IF ~ret'.success \/ anchorIdx < 1 THEN pushed
              ELSE [pushed EXCEPT !.waiting = @ \cup {call},
                                  !.resolve = Obj(call),
                                  !.dialog = TRUE]
  /\ UNCHANGED capture

\* _resolveARDistance({ distance, memo: '' }) and the _onARTap call it wakes
resolveARDistance(distance) ==
  /\ ar.mode = "ar" /\ ar.dialog
  /\ UNCHANGED capture
  /\ IF ar.resolve = Null
     THEN ar' = [ar EXCEPT !.dialog = FALSE] /\ ARQuiet
     ELSE LET call == Val(ar.resolve)
              dist == IF distance # Null THEN distance ELSE call.measured
          IN /\ ar' = [ar EXCEPT !.dialog = FALSE, !.resolve = Null,
                                 !.waiting = @ \ {call}]
             /\ IF dist # Null THEN setSegmentDistance(call.segIndex, dist)
                ELSE ARQuiet

\* the OK button: _submitARDistance with the distance field empty (null) or
\* a number that is not negative, and the memo field empty
submitARDistance(distance) == resolveARDistance(distance)

\* the Skip button
skipARDistance == resolveARDistance(Null)

\* the undo button of AR mode: undoLastAnchor, then undoLastPoint
arUndo ==
  /\ ar.mode = "ar"
  /\ undoLastPoint
  /\ ar' = [ar EXCEPT !.anchors = IF Len(@) = 0 THEN @
                                  ELSE SubSeq(@, 1, Len(@) - 1)]
  /\ UNCHANGED capture

\* the done button of AR mode
exitARMode ==
  /\ ar.mode = "ar"
  /\ ar' = ExitedAR(ar)
  /\ UNCHANGED capture
  /\ ARQuiet

\* the load button before a mode is chosen: _loadProject hands the stored
\* points to loadPoints
loadBeforeAR(pts) ==
  /\ ar.mode = "select"
  /\ loadPoints(pts, Undef)
  /\ UNCHANGED <<capture, ar>>

\* a step of AR mode leaves the SensorManager and the histories alone
AROnly == UNCHANGED <<kept, issued, issuedSinceReset, sensor>>

(* ---------------------------------------------------------------------- *)
(* Inputs                                                                  *)
(* ---------------------------------------------------------------------- *)

\* a memo one character over the bound
LongMemo == [k \in 1..(MEMO_MAX_LENGTH + 1) |-> "a"]

Memos == {Str(<<" ", "a", " ">>), Str(LongMemo)}

\* indices: negative, every position of a full route, and past the end
Indices == -1..MAX_POINTS

\* ids: one below and one above those the counter hands out
Ids == 0..(MaxId + 1)

Distances == {Null, Num(-1), Num(2), Num(3), Num(MAX_DISTANCE + 1)}

Directions == {<<Num(90), Num(0), Str("fusion"), Null>>}

NoUpdate ==
  [memo |-> Undef, distance |-> Undef, heading |-> Undef,
   elevation |-> Undef, directionSource |-> Undef]

\* what the edit dialog hands to updatePointByIndex: it refuses a negative
\* distance and lets any other number through
Updates ==
  {[NoUpdate EXCEPT !.distance = Num(MAX_DISTANCE + 1)],
   [NoUpdate EXCEPT !.memo = Str(<<"a", " ">>), !.distance = Num(2),
                    !.heading = Num(90), !.elevation = Num(0),
                    !.directionSource = Str("fusion")]}

RealDistances == {0, 2}

\* the segments the application calibrates on (the first), and an invalid one
CalibrationSegments == {-1, 0}

\* a stored point with every optional property absent
BarePoint(id) ==
  [id |-> id, screenX |-> Undef, screenY |-> Undef, memo |-> Undef,
   createdAt |-> Undef, distanceToNext |-> Undef, heading |-> Undef,
   elevation |-> Undef, directionSource |-> Undef, sensorLevel |-> Undef]

\* point lists handed to loadPoints from outside: empty, one point more than
\* the cap, ids out of order with a distance on the terminal point
LoadLists ==
  {<<>>,
   [k \in 1..(MAX_POINTS + 1) |-> BarePoint(k)],
   <<BarePoint(3), [BarePoint(1) EXCEPT !.distanceToNext = Num(2)]>>}

LoadCalibrations ==
  {Undef, Obj([pixelsPerMeter |-> Num(<<0, 1>>), referenceSegment |-> Undef])}

\* the inputs of a user who enters what the dialogs accept
ValidTaps == {<<0, 0>>, <<3, 4>>}

ValidDistances == {Num(0)}

ValidDirections == {<<Num(0), Num(0), Str("manual"), Num(5)>>}

(* ---------------------------------------------------------------------- *)
(* Specifications                                                          *)
(* ---------------------------------------------------------------------- *)

\* Spec: one PointManager, built up from the empty route by the operations
\* that edit it in place, with any arguments
Next ==
  \/ \E m \in Memos : addPoint(Num(3), Num(4), m) /\ UNCHANGED elsewhere
  \/ \E i \in Indices, d \in Distances :
       setSegmentDistance(i, d) /\ UNCHANGED elsewhere
  \/ \E i \in Indices, dir \in Directions :
       setPointDirection(i, dir[1], dir[2], dir[3], dir[4]) /\ UNCHANGED elsewhere
  \/ \E id \in Ids, m \in Memos : updateMemo(id, m) /\ UNCHANGED elsewhere
  \/ \E i \in Indices, data \in Updates :
       updatePointByIndex(i, data) /\ UNCHANGED elsewhere
  \/ undoLastPoint /\ UNCHANGED elsewhere
  \/ \E id \in Ids : removePoint(id) /\ UNCHANGED elsewhere
  \/ \E i \in CalibrationSegments, r \in RealDistances :
       calibrate(i, r) /\ UNCHANGED elsewhere
  \/ clear /\ UNCHANGED elsewhere

Spec == Init /\ [][Next]_vars

\* the history of the ids handed out
Max(a, b) == IF a > b THEN a ELSE b

IssueId ==
  /\ UNCHANGED <<kept, sensor, capture, ar>>
  /\ issued' = Max(issued, nextId)
  /\ issuedSinceReset' = Max(issuedSinceReset, nextId)

ResetIssued ==
  /\ issued' = issued
  /\ issuedSinceReset' = 0
  /\ UNCHANGED <<kept, sensor, capture, ar>>

\* SpecLoad: the operations that add and remove points, and loadPoints with
\* lists from outside
LoadNext ==
  \/ /\ addPoint(Num(0), Num(0), Str(<<>>))
     /\ IF ret'.success THEN IssueId ELSE UNCHANGED elsewhere
  \/ undoLastPoint /\ UNCHANGED elsewhere
  \/ \E id \in Ids : removePoint(id) /\ UNCHANGED elsewhere
  \/ clear /\ ResetIssued
  \/ \E pts \in LoadLists, cal \in LoadCalibrations :
       loadPoints(pts, cal) /\ ResetIssued

SpecLoad == Init /\ [][LoadNext]_vars

\* SpecProject: a route edited with valid inputs, saved and loaded again
ProjectNext ==
  \/ \E t \in ValidTaps :
       addPoint(Num(t[1]), Num(t[2]), Str(<<>>)) /\ UNCHANGED elsewhere
  \/ \E i \in Indices, d \in ValidDistances :
       setSegmentDistance(i, d) /\ UNCHANGED elsewhere
  \/ \E i \in Indices, dir \in ValidDirections :
       setPointDirection(i, dir[1], dir[2], dir[3], dir[4]) /\ UNCHANGED elsewhere
  \/ saveProject /\ UNCHANGED elsewhere
  \/ loadProject /\ UNCHANGED elsewhere

SpecProject == Init /\ [][ProjectNext]_vars

\* taps along one line of the screen, 100 and 150 pixels apart
CalibrationTaps == {<<0, 0>>, <<60, 80>>, <<150, 200>>}

\* SpecCalibrate: routes of taps at known pixel distances, calibrated and
\* estimated
CalibrateNext ==
  \/ \E t \in CalibrationTaps :
       addPoint(Num(t[1]), Num(t[2]), Str(<<>>)) /\ UNCHANGED elsewhere
  \/ undoLastPoint /\ UNCHANGED elsewhere
  \/ \E i \in Indices, r \in RealDistances : calibrate(i, r) /\ UNCHANGED elsewhere
  \/ \E i \in Indices : estimateDistance(i) /\ UNCHANGED elsewhere

SpecCalibrate == Init /\ [][CalibrateNext]_vars

\* taps for a route: the first at the origin of the screen, each later one
\* 1 pixel or 13 pixels from the one before
TapSteps == {<<0, 1>>, <<5, 12>>}

NextTaps(ps) ==
  IF ps = <<>> THEN {<<0, 0>>}
  ELSE {<<Val(ps[Len(ps)].screenX) + t[1], Val(ps[Len(ps)].screenY) + t[2]>> :
          t \in TapSteps}

PositionDistances == {Null, Num(0), Num(5)}

\* heading, elevation: east and level; north and straight up; south with no
\* elevation recorded
PositionDirections ==
  {<<Num(90), Num(0), Str("manual"), Num(5)>>,
   <<Num(0), Num(90), Str("manual"), Num(5)>>,
   <<Num(180), Null, Str("manual"), Num(5)>>}

\* SpecPositions: routes with and without directions and distances, laid
\* out by pointsToPositions and written by the exporters; as in the
\* application a direction is given to the start point of a segment
PositionsNext ==
  \/ \E t \in NextTaps(points) :
       addPoint(Num(t[1]), Num(t[2]), Str(<<>>)) /\ UNCHANGED elsewhere
  \/ \E i \in Indices, d \in PositionDistances :
       setSegmentDistance(i, d) /\ UNCHANGED elsewhere
  \/ \E i \in 0..(Len(points) - 2), dir \in PositionDirections :
       setPointDirection(i, dir[1], dir[2], dir[3], dir[4]) /\ UNCHANGED elsewhere
  \/ updateRoute /\ UNCHANGED elsewhere
  \/ exportObj /\ UNCHANGED elsewhere
  \/ exportDxf /\ UNCHANGED elsewhere

SpecPositions == Init /\ [][PositionsNext]_vars

PermissionAnswers == {"granted", "denied", "throws"}

AbsoluteOrientationEvents ==
  {[alpha |-> Null, beta |-> Null], [alpha |-> Num(270), beta |-> Num(45)]}

OrientationEvents ==
  {[webkitCompassHeading |-> Undef, webkitCompassAccuracy |-> Undef,
    beta |-> Num(120)],
   [webkitCompassHeading |-> Num(350), webkitCompassAccuracy |-> Num(10),
    beta |-> Null]}

MotionEvents ==
  {[rotationRate |-> Null, accelerationIncludingGravity |-> Null],
   [rotationRate |-> Obj([alpha |-> Num(20)]),
    accelerationIncludingGravity |-> Obj([y |-> Num(-10), z |-> Num(-10)])],
   [rotationRate |-> Obj([alpha |-> Num(20)]),
    accelerationIncludingGravity |-> Null]}

\* performance.now() at a motion event: one second after the one before
MotionTimes ==
  {IF sensor.lastGyroTime = Null THEN 0
   ELSE Val(sensor.lastGyroTime) + 1000}

\* SpecSensor: one SensorManager, its init() and the events of its platform
SensorNext ==
  \/ init /\ SensorOnly
  \/ \E r \in PermissionAnswers : answerOrientation(r) /\ SensorOnly
  \/ \E r \in PermissionAnswers : answerMotion(r) /\ SensorOnly
  \/ settle /\ SensorOnly
  \/ \E e \in AbsoluteOrientationEvents : onAbsoluteOrientation(e) /\ SensorOnly
  \/ \E e \in OrientationEvents : onOrientation(e) /\ SensorOnly
  \/ \E e \in MotionEvents, now \in MotionTimes : onMotion(e, now) /\ SensorOnly

SpecSensor == Init /\ [][SensorNext]_vars

\* headings on both sides of north and of south, and the ends of the range
FuseHeadings == {0, 10, 90, 170, 180, 190, 270, 350, 359}

\* a manager at level 3 that tracks the heading g: init() on a platform
\* without requestPermission, one motion event with rotation rate and
\* gravity inside the settle wait, then setInitialHeading(g)
Tracking(g) ==
  [NewSensor EXCEPT
     !.pc = "done", !.listening = TRUE, !.permissionGranted = TRUE,
     !.orientationAllowed = TRUE, !.motionAllowed = TRUE,
     !.hasGyro = TRUE, !.hasAccel = TRUE, !.lastGyroTime = Num(0),
     !.elevation = Num(<<45, 1>>), !.level = 3,
     !.result = Obj([level |-> 3, description |-> LevelDescription(3)]),
     !.events = 1, !.eventsAtSettle = 1,
     !.heading = Num(<<g, 1>>), !.gyroHeading = Num(<<g, 1>>)]

\* a deviceorientation event that carries the compass heading c
CompassEvent(c) ==
  [webkitCompassHeading |-> Num(c), webkitCompassAccuracy |-> Undef,
   beta |-> Null]

FuseInit ==
  /\ points = <<>>
  /\ nextId = 1
  /\ calibration = NoCalibration
  /\ storage = Null
  /\ ret = VoidResult("constructor")
  /\ notified = 0
  /\ delivered = <<>>
  /\ kept = NothingKept
  /\ issued = 0
  /\ issuedSinceReset = 0
  /\ \E g \in FuseHeadings : sensor = Tracking(g)
  /\ capture = NewCapture
  /\ ar = NewAR

\* SpecFuse: _fuse applied to every tracked heading and compass heading
FuseNext ==
  \E c \in FuseHeadings : onOrientation(CompassEvent(c)) /\ SensorOnly

SpecFuse == FuseInit /\ [][FuseNext]_vars

\* a devicemotion event of a device that does not rotate
StillMotion ==
  [rotationRate |-> Obj([alpha |-> Num(0)]),
   accelerationIncludingGravity |-> Null]

ConvergeInit ==
  /\ points = <<>>
  /\ nextId = 1
  /\ calibration = NoCalibration
  /\ storage = Null
  /\ ret = VoidResult("constructor")
  /\ notified = 0
  /\ delivered = <<>>
  /\ kept = NothingKept
  /\ issued = 0
  /\ issuedSinceReset = 0
  /\ \E g \in FuseHeadings, c \in FuseHeadings :
       sensor = [Tracking(g) EXCEPT !.compass = Num(c)]
  /\ capture = NewCapture
  /\ ar = NewAR

\* SpecConverge: the compass reads the same heading at every update and the
\* device does not rotate
ConvergeNext ==
  \/ onOrientation(CompassEvent(Val(sensor.compass))) /\ SensorOnly
  \/ \E now \in MotionTimes : onMotion(StillMotion, now) /\ SensorOnly

SpecConverge == ConvergeInit /\ [][ConvergeNext]_vars

\* values for setInitialHeading: above and below [0, 360), and inside it
\* with two decimals
InitialHeadings == {<<370, 1>>, <<-90, 1>>, <<617, 50>>}

\* a devicemotion event of a device that turns the other way
TurningBack ==
  {[rotationRate |-> Obj([alpha |-> Num(-20)]),
    accelerationIncludingGravity |-> Null]}

\* performance.now() after a long gap between motion events
LateMotionTimes ==
  {IF sensor.lastGyroTime = Null THEN 0
   ELSE Val(sensor.lastGyroTime) + 30000}

\* SpecReading: SpecSensor with captureReading, setInitialHeading and motion
\* events of any rate and spacing
ReadingNext ==
  \/ SensorNext
  \/ captureReading /\ SensorOnly
  \/ \E deg \in InitialHeadings : setInitialHeading(deg) /\ SensorOnly
  \/ \E e \in TurningBack, now \in MotionTimes \cup LateMotionTimes :
       onMotion(e, now) /\ SensorOnly

SpecReading == Init /\ [][ReadingNext]_vars

\* deviceorientationabsolute events: without a reading, and with alpha
CaptureAbsoluteEvents ==
  {[alpha |-> a, webkitCompassHeading |-> Undef] :
     a \in {Null, Num(0), Num(90), Num(270)}}

\* deviceorientation events: without a reading, relative (with the compass
\* heading Safari adds), and absolute
CaptureFallbackEvents ==
  {[alpha |-> Null, absolute |-> FALSE, webkitCompassHeading |-> Undef],
   [alpha |-> Num(45), absolute |-> FALSE, webkitCompassHeading |-> Num(120)],
   [alpha |-> Num(180), absolute |-> TRUE, webkitCompassHeading |-> Undef]}

\* what getAnchorDistance measures, and what the user enters
ARMeasures == {Num(2)}

ARDistances == {Null, Num(5)}

\* the stored project: one point
ARRoutes == {<<BarePoint(1)>>}

\* SpecAR: the App from the choice of AR mode on, after an optional load
ARNext ==
  \/ \E pts \in ARRoutes : loadBeforeAR(pts) /\ AROnly
  \/ startARMode /\ AROnly
  \/ \E e \in CaptureAbsoluteEvents : captureAbsolute(e) /\ AROnly
  \/ \E e \in CaptureFallbackEvents : captureFallback(e) /\ AROnly
  \/ captureTimeout /\ AROnly
  \/ sessionStarts /\ AROnly
  \/ sessionFails /\ AROnly
  \/ \E m \in ARMeasures : placeAnchor(m) /\ AROnly
  \/ \E d \in ARDistances : submitARDistance(d) /\ AROnly
  \/ skipARDistance /\ AROnly
  \/ arUndo /\ AROnly
  \/ exitARMode /\ AROnly

SpecAR == Init /\ [][ARNext]_vars

\* the timer of the capture fires unless it is cleared
SpecARFair == SpecAR /\ WF_vars(captureTimeout /\ AROnly)

\* SpecTeardown: SpecSensor with a subscriber and dispose() at any moment
TeardownNext ==
  \/ SensorNext
  \/ onChange /\ SensorOnly
  \/ dispose /\ SensorOnly

SpecTeardown == Init /\ [][TeardownNext]_vars

\* what a held array of point objects reads after an operation: the array
\* is a copy, its elements are the manager's own point objects, so an element
\* still in the route reads as the route's point does, and an element taken
\* out of the route reads as it did when it left. Between clear/loadPoints
\* a point object is identified by its id.
Aliased(held, ps) ==
  [k \in 1..Len(held) |->
     IF \E j \in 1..Len(ps) : ps[j].id = held[k].id
     THEN ps[CHOOSE j \in 1..Len(ps) : ps[j].id = held[k].id]
     ELSE held[k]]

\* the subscriber: it holds on to one of the snapshots it is given, any one
Observe ==
  /\ UNCHANGED <<issued, issuedSinceReset, sensor, capture, ar>>
  /\ \/ /\ ~kept.held /\ notified' = 1
        /\ kept' = [held |-> TRUE, atDelivery |-> delivered', now |-> delivered']
     \/ kept' = [kept EXCEPT !.now = Aliased(@, points')]

\* SpecSnapshot: the operations that edit the route in place, with inputs
\* they accept, and a subscriber holding a snapshot
SnapshotNext ==
  \/ addPoint(Num(3), Num(4), Str(<<>>)) /\ Observe
  \/ \E i \in Indices : setSegmentDistance(i, Num(2)) /\ Observe
  \/ \E i \in Indices, dir \in Directions :
       setPointDirection(i, dir[1], dir[2], dir[3], dir[4]) /\ Observe
  \/ \E id \in {0, 1} : updateMemo(id, Str(<<"a">>)) /\ Observe
  \/ \E i \in Indices :
       updatePointByIndex(i, [NoUpdate EXCEPT !.distance = Num(2)]) /\ Observe
  \/ undoLastPoint /\ Observe
  \/ \E id \in Ids : removePoint(id) /\ Observe

SpecSnapshot == Init /\ [][SnapshotNext]_vars

(* ---------------------------------------------------------------------- *)
(* Properties                                                              *)
(* ---------------------------------------------------------------------- *)

\* the distanceToNext of every point that has a successor, in route order
SegmentDistances(ps) == [k \in 1..(Len(ps) - 1) |-> ps[k].distanceToNext]

ValidSegment(i) == 0 <= i /\ i < Len(points) - 1

\* C1: undoLastPoint on a route of n >= 1 points succeeds and removes exactly
\* the last point; the point that becomes last has distanceToNext = null and
\* every other remaining point is unchanged. On an empty route it fails and
\* changes nothing.
UndoRemovesOnlyLast ==
  [][ret'.op = "undoLastPoint" =>
       IF Len(points) = 0
       THEN ~ret'.success /\ UNCHANGED pmVars
       ELSE /\ ret'.success
            /\ Len(points') = Len(points) - 1
            /\ UNCHANGED <<nextId, calibration>>
            /\ \A k \in 1..Len(points') :
                 points'[k] = IF k = Len(points')
                              THEN [points[k] EXCEPT !.distanceToNext = Null]
                              ELSE points[k]]_vars

\* C1 witness: undo has acted and left a route whose earlier segment still
\* carries its distance.
UndoRemovesOnlyLastWitness ==
  /\ ret.op = "undoLastPoint" /\ ret.success
  /\ Len(points) >= 2
  /\ points[1].distanceToNext # Null
  /\ points[1].heading # Null

\* C2 as stated: undoLastPoint on a 3-point route with segment distances
\* [2, 3] leaves a 2-point route whose segment distance list is [null].
UndoExampleAsStated ==
  [][(/\ ret'.op = "undoLastPoint"
      /\ Len(points) = 3
      /\ SegmentDistances(points) = <<Num(2), Num(3)>>)
     => (Len(points') = 2 /\ SegmentDistances(points') = <<Null>>)]_vars

\* C2 amended: undoLastPoint on a 3-point route with segment distances [2, 3]
\* leaves a 2-point route whose segment distance list is [2]: the segment
\* from point 0 to point 1 keeps its distance, and point 1, now the last
\* point, has distanceToNext = null in place of 3.
UndoExample ==
  [][(/\ ret'.op = "undoLastPoint"
      /\ Len(points) = 3
      /\ SegmentDistances(points) = <<Num(2), Num(3)>>)
     => (/\ Len(points') = 2
         /\ SegmentDistances(points') = <<Num(2)>>
         /\ points'[2].distanceToNext = Null)]_vars

\* C2 witness: the 2-point route the example ends in, reached by undo.
UndoExampleWitness ==
  /\ ret.op = "undoLastPoint" /\ ret.success
  /\ Len(points) = 2
  /\ points[1].id = 1 /\ points[2].id = 2 /\ nextId = 4
  /\ SegmentDistances(points) = <<Num(2)>>

\* C3: with MAX_POINTS points in the route addPoint fails with the count
\* error, leaves points, id counter and calibration unchanged and notifies
\* no subscriber.
AddAtCapacityFails ==
  [][(ret'.op = "addPoint" /\ Len(points) >= MAX_POINTS)
     => (/\ ~ret'.success
         /\ ret'.error = "count"
         /\ UNCHANGED pmVars
         /\ notified' = 0)]_vars

\* C3 witness: a full, calibrated route on which addPoint has just failed.
AddAtCapacityFailsWitness ==
  /\ ret.op = "addPoint" /\ ~ret.success /\ ret.error = "count"
  /\ Len(points) = MAX_POINTS
  /\ calibration.pixelsPerMeter # Null

\* C4 as stated: setSegmentDistance(index, -1) fails with the distance-range
\* error for every index and leaves the route unchanged.
NegativeDistanceAsStated ==
  [][ret'.op = "setSegmentDistance" =>
       \A i \in Indices :
         setSegmentDistance(i, Num(-1))
         => (/\ ~ret'.success
             /\ ret'.error = "distance-negative"
             /\ UNCHANGED pmVars)]_vars

\* C4 amended: setSegmentDistance(index, -1) fails for every index and leaves
\* the route unchanged; the error is the distance-range error when index is
\* a valid non-terminal index, and the invalid-segment error otherwise (the
\* index is checked first).
NegativeDistanceRejected ==
  [][ret'.op = "setSegmentDistance" =>
       \A i \in Indices :
         setSegmentDistance(i, Num(-1))
         => (/\ ~ret'.success
             /\ ret'.error = IF ValidSegment(i) THEN "distance-negative"
                                               ELSE "segment"
             /\ UNCHANGED pmVars
             /\ notified' = 0)]_vars

\* C4 witness: a negative distance has just been refused on a valid segment
\* of a route that holds a measured distance.
NegativeDistanceRejectedWitness ==
  /\ ret.op = "setSegmentDistance" /\ ~ret.success
  /\ ret.error = "distance-negative"
  /\ Len(points) = MAX_POINTS
  /\ points[1].distanceToNext = Num(3)

\* C5: in a route built from the empty route by the editing operations the
\* last point always has distanceToNext = null.
TerminalDistanceNull ==
  Len(points) > 0 => points[Len(points)].distanceToNext = Null

\* C5 witness: removePoint has acted and the route still holds a measured
\* segment before its last point.
TerminalDistanceNullWitness ==
  /\ ret.op = "removePoint" /\ ret.success
  /\ Len(points) = 2
  /\ points[1].distanceToNext = Num(3)
  /\ points[1].id = 2

\* C6 as stated: every point's distanceToNext is null or a number in
\* [0, 1000].
DistanceInRange ==
  \A k \in 1..Len(points) :
    \/ points[k].distanceToNext = Null
    \/ /\ Val(points[k].distanceToNext) >= 0
       /\ Val(points[k].distanceToNext) <= MAX_DISTANCE

\* C7 as stated: the number of points never exceeds MAX_POINTS.
CountWithinCap == Len(points) <= MAX_POINTS

\* C8 as stated: the id a successful addPoint assigns is greater than every
\* id addPoint has assigned before on this manager.
IdsNeverReused ==
  [][(ret'.op = "addPoint" /\ ret'.success)
     => points'[Len(points')].id > issued]_vars

\* C8 amended: over addPoint, undoLastPoint and removePoint the id a
\* successful addPoint assigns is greater than every id assigned since the
\* last clear or loadPoints (clear sets the counter back to 1 and loadPoints
\* to the largest loaded id + 1, so an id handed out before may return).
IdsIncreaseUntilReset ==
  [][(ret'.op = "addPoint" /\ ret'.success)
     => (/\ points'[Len(points')].id > issuedSinceReset
         /\ \A k \in 1..Len(points) : points[k].id < points'[Len(points')].id)]_vars

\* C8 witness: addPoint has assigned an id after an earlier point was taken
\* out of the route.
IdsIncreaseUntilResetWitness ==
  /\ ret.op = "addPoint" /\ ret.success
  /\ Len(points) = 2
  /\ points[2].id = 3
  /\ issuedSinceReset = 3

\* C9: after loadPoints the id counter is the largest loaded id + 1 (1 for
\* an empty list), and the counter is above the id of every point in the
\* route, so a point added later gets an id no point of the route has.
CounterAboveLoadedIds ==
  /\ \A k \in 1..Len(points) : points[k].id < nextId
  /\ ret.op = "loadPoints" =>
       IF points = <<>> THEN nextId = 1
       ELSE \E k \in 1..Len(points) : points[k].id = nextId - 1

\* C9 witness: a list whose ids are out of order has been loaded.
CounterAboveLoadedIdsWitness ==
  /\ ret.op = "loadPoints"
  /\ Len(points) = 2
  /\ points[1].id > points[2].id
  /\ nextId = points[1].id + 1

\* C10: writing the point array to the project document and loading it
\* again reproduces the sequence: same length, order, ids and field values.
RoundTrip ==
  /\ LoadedPoints(JsonPoints(points)) = points
  /\ (ret.op = "loadProject" /\ ret.success) => points = Val(storage).points

\* C10 witness: a project whose points have heading 0, elevation 0,
\* distance 0 and screen coordinate 0 has been loaded.
RoundTripWitness ==
  /\ ret.op = "loadProject" /\ ret.success
  /\ Len(points) = MAX_POINTS
  /\ points[1].distanceToNext = Num(0)
  /\ points[1].heading = Num(0) /\ points[1].elevation = Num(0)
  /\ points[1].screenX = Num(0)
  /\ points[2].screenX = Num(3)
  /\ points[2].distanceToNext = Null

\* C11 as stated: every operation that changes the route, the calibration or
\* the id counter calls each subscriber exactly once, with the point sequence
\* as it is after the operation.
NotifiedOnEveryMutation ==
  [][pmVars' # pmVars => (notified' = 1 /\ delivered' = points')]_vars

\* C12 as stated: a snapshot a subscriber holds reads, after any later
\* mutations, as it did when it was delivered.
SnapshotImmutable == kept.held => kept.now = kept.atDelivery

\* C13: removePoint(id) for an id at index i succeeds, removes exactly that
\* point and keeps the others in order; the point that was at index i-1
\* (when i > 0) gets distanceToNext = null and no other field of a remaining
\* point changes, nor the id counter or the calibration. For an id not in
\* the route it fails, changes nothing and notifies no one.
RemoveExactlyThatPoint ==
  [][ret'.op = "removePoint" =>
       \A id \in Ids :
         removePoint(id) =>
           IF \E k \in 1..Len(points) : points[k].id = id
           THEN LET i == CHOOSE k \in 1..Len(points) : points[k].id = id
                    Old(k) == IF k < i THEN points[k] ELSE points[k + 1]
                IN /\ ret'.success
                   /\ Len(points') = Len(points) - 1
                   /\ \A k \in 1..Len(points') :
                        points'[k] = IF k = i - 1
                                     THEN [Old(k) EXCEPT !.distanceToNext = Null]
                                     ELSE Old(k)
                   /\ UNCHANGED <<nextId, calibration>>
           ELSE /\ ~ret'.success
                /\ UNCHANGED pmVars
                /\ notified' = 0]_vars

\* C13 witness: the middle point of a three-point route has been removed;
\* its predecessor lost its distance and kept its direction.
RemoveExactlyThatPointWitness ==
  /\ ret.op = "removePoint" /\ ret.success
  /\ Len(points) = 2
  /\ points[1].id = 1 /\ points[2].id = 3
  /\ points[1].distanceToNext = Null
  /\ points[1].heading = Num(90)

\* the operations of the manager that return a result to their caller
MutatingOperations ==
  {"addPoint", "setSegmentDistance", "setPointDirection", "updateMemo",
   "updatePointByIndex", "undoLastPoint", "removePoint", "calibrate"}

\* C14 as stated: every mutating operation returns a result with a success
\* flag, and a result that reports failure carries a message.
FailureCarriesMessage ==
  ret.op \in MutatingOperations =>
    /\ ~ret.void
    /\ ~ret.success => ret.error # "none"

\* C15 as stated: pixelsPerMeter is null or strictly greater than 0.
PixelsPerMeterPositive ==
  \/ calibration.pixelsPerMeter = Null
  \/ Val(calibration.pixelsPerMeter)[1] > 0

\* the pixel length of segment i of a route
SegmentPixels(ps, i) ==
  pixelDistance(Val(At(ps, i).screenX), Val(At(ps, i).screenY),
                Val(At(ps, i + 1).screenX), Val(At(ps, i + 1).screenY))

\* C16 as stated: calibrate on a valid segment of pixel length P with real
\* distance R > 0 leaves pixelsPerMeter = P / R, and then estimateDistance(j)
\* is the number pixelLength(j) / pixelsPerMeter for every valid non-terminal
\* j; estimateDistance returns null when uncalibrated or when the index is
\* not valid, and changes nothing.
EstimateIsPixelsOverScale ==
  [][/\ ret'.op = "calibrate" =>
          \A i \in Indices, r \in RealDistances :
            (calibrate(i, r) /\ ValidSegment(i) /\ r > 0) =>
              /\ calibration'.pixelsPerMeter =
                   Num(Frac(SegmentPixels(points, i), r))
              /\ \A j \in 0..(Len(points) - 2) :
                   LET e == EstimatedDistance(points', calibration', j)
                   IN /\ e # Null
                      /\ Val(e)[1] * SegmentPixels(points, i) =
                           SegmentPixels(points, j) * r * Val(e)[2]
     /\ ret'.op = "estimateDistance" =>
          /\ UNCHANGED pmVars
          /\ \A i \in Indices :
               (estimateDistance(i) /\
                (calibration.pixelsPerMeter = Null \/ ~ValidSegment(i)))
               => ret'.value = Null]_vars

\* the move the claims describe for a segment in heading mode: from pos by
\* (d cos e sin h, d sin e, d cos e cos h), a null elevation counting as 0
\* and an unmeasured distance as 1
HeadingMove(pos, p) ==
  LET h == Val(p.heading)
      e == IF p.elevation = Null THEN 0 ELSE Val(p.elevation)
      d == IF p.distanceToNext = Null THEN 1 ELSE Val(p.distanceToNext)
  IN [x |-> FracAdd(pos.x, <<d * CosDeg(e) * SinDeg(h), 1>>),
      y |-> FracAdd(pos.y, <<d * SinDeg(e), 1>>),
      z |-> FracAdd(pos.z, <<d * CosDeg(e) * CosDeg(h), 1>>)]

\* C17: pointsToPositions returns one position per point with point 0 at the
\* origin; a segment whose start point has a heading moves the position by
\* (d cos e sin h, d sin e, d cos e cos h); heading 90, elevation 0,
\* distance 5 on point 0 puts point 1 at (5, 0, 0); a measured distance of 0
\* moves the position by nothing.
HeadingModePositions ==
  (ret.op = "updateRoute" /\ Len(points) > 0) =>
    LET pos == ret.value
    IN /\ Len(pos) = Len(points)
       /\ pos[1] = [x |-> <<0, 1>>, y |-> <<0, 1>>, z |-> <<0, 1>>]
       /\ \A k \in 1..(Len(points) - 1) :
            points[k].heading # Null =>
              /\ pos[k + 1] = HeadingMove(pos[k], points[k])
              /\ points[k].distanceToNext = Num(0) => pos[k + 1] = pos[k]
       /\ (/\ Len(points) >= 2
           /\ points[1].heading = Num(90) /\ points[1].elevation = Num(0)
           /\ points[1].distanceToNext = Num(5))
          => pos[2] = [x |-> <<5, 1>>, y |-> <<0, 1>>, z |-> <<0, 1>>]

\* C17 witness: positions computed for a route whose first segment is the
\* example (east, level, 5) and whose second has a measured distance of 0.
HeadingModePositionsWitness ==
  /\ ret.op = "updateRoute"
  /\ Len(points) = 3
  /\ points[1].heading = Num(90) /\ points[1].elevation = Num(0)
  /\ points[1].distanceToNext = Num(5)
  /\ points[2].heading = Num(0) /\ points[2].elevation = Num(90)
  /\ points[2].distanceToNext = Num(0)
  /\ ret.value[3] = [x |-> <<5, 1>>, y |-> <<0, 1>>, z |-> <<0, 1>>]

\* the move the claims describe for segment k (1-based) of the route
ExpectedMove(pos, k) ==
  LET p1 == points[k]
      p2 == points[k + 1]
      d == IF p1.distanceToNext = Null THEN 1 ELSE Val(p1.distanceToNext)
      dx == Val(p2.screenX) - Val(p1.screenX)
      dy == Val(p2.screenY) - Val(p1.screenY)
  IN IF p1.heading # Null THEN HeadingMove(pos, p1)
     ELSE IF dx * dx + dy * dy > 1
     THEN [x |-> FracAdd(pos.x, Frac(dx * d, Sqrt(dx * dx + dy * dy))),
           y |-> pos.y,
           z |-> FracAdd(pos.z, Frac(dy * d, Sqrt(dx * dx + dy * dy)))]
     ELSE [x |-> FracAdd(pos.x, <<d, 1>>), y |-> pos.y, z |-> pos.z]

\* C18: each segment is laid out in heading mode when its start point has a
\* heading, otherwise along the screen displacement (no vertical change)
\* when the taps are more than 1 pixel apart, otherwise along x; the choice
\* looks at that segment only, and the positions of points 0..k are those
\* pointsToPositions gives for the route cut after point k.
SegmentModesIndependent ==
  (ret.op = "updateRoute" /\ Len(points) > 0) =>
    LET pos == ret.value
    IN /\ \A k \in 1..(Len(points) - 1) : pos[k + 1] = ExpectedMove(pos[k], k)
       /\ \A k \in 1..Len(points) :
            pointsToPositions(SubSeq(points, 1, k)) = SubSeq(pos, 1, k)

\* C18 witness: positions computed for a route whose first segment has no
\* heading and taps 13 pixels apart, and whose second has a heading.
SegmentModesIndependentWitness ==
  /\ ret.op = "updateRoute"
  /\ Len(points) = 3
  /\ points[1].heading = Null /\ points[1].distanceToNext = Num(5)
  /\ points[2].screenX = Num(5) /\ points[2].screenY = Num(12)
  /\ points[2].heading = Num(180) /\ points[2].elevation = Null
  /\ ret.value[2] = [x |-> <<25, 13>>, y |-> <<0, 1>>, z |-> <<60, 13>>]
  /\ ret.value[3].z = <<-5, 13>>

\* values the default distance could have had
OtherDefaults == 0..2

\* C19 as stated: no vertex coordinate an exporter writes is computed from
\* the default distance: the OBJ and DXF vertices of a route are the same
\* whatever value stands in for an unmeasured distance.
ExportsFreeOfDefault ==
  /\ (ret.op = "exportObj" /\ ret.success) =>
       \A other \in OtherDefaults : ret.value = ObjVertices(points, other)
  /\ (ret.op = "exportDxf" /\ ret.success) =>
       \A other \in OtherDefaults : ret.value = DxfVertices(points, other)

\* C20: init() never rejects; when a permission was denied, the request
\* threw, or no sensor event arrived before the settle wait ended, it
\* resolves with level 5; and on a platform with requestPermission where
\* permission was not granted no listener is registered, the level is 5 and
\* heading and elevation are null, whatever happens later.
InitDegradesToLevel5 ==
  /\ sensor.pc # "rejected"
  /\ sensor.pc = "done" => sensor.result # Null
  /\ (/\ sensor.pc = "done"
      /\ \/ "denied" \in sensor.answers
         \/ "throws" \in sensor.answers
         \/ sensor.eventsAtSettle = 0)
     => (Val(sensor.result).level = 5 /\ sensor.level = 5)
  /\ (sensor.gated /\ ~sensor.permissionGranted) =>
       /\ ~sensor.listening
       /\ sensor.level = 5
       /\ sensor.heading = Null
       /\ sensor.elevation = Null

\* C20 witness: on a platform with requestPermission the orientation
\* permission was granted and the motion permission denied, and init() has
\* resolved.
InitDegradesToLevel5Witness ==
  /\ sensor.pc = "done"
  /\ sensor.gated
  /\ sensor.answers = {"granted", "denied"}
  /\ Val(sensor.result).level = 5

\* the state of the fusion: what the event handlers write
FusionState(s) ==
  <<s.heading, s.elevation, s.gyroHeading, s.lastGyroTime,
    s.hasCompass, s.hasGyro, s.hasAccel, s.compassAccuracy>>

\* C21 (as stated): once dispose() has been called no listener is registered
\* on window, no step changes the fusion state and no subscriber is called,
\* whatever init() was doing when dispose() was called.
TeardownStopsSensors ==
  [][sensor.disposed =>
       /\ ~sensor'.listening
       /\ FusionState(sensor') = FusionState(sensor)
       /\ sensor'.reached = 0]_vars

\* the angle a, of any sign, brought to [-180, 180)
Wrap180(a) ==
  LET m == Frac(a[1] % (360 * a[2]), a[2])
  IN IF FracLess(m, <<180, 1>>) THEN m ELSE FracSub(m, <<360, 1>>)

InRange(a) == ~FracLess(a, <<0, 1>>) /\ FracLess(a, <<360, 1>>)

\* C22: a compass heading c fused with a tracked heading g gives a heading
\* in [0, 360) whose signed angle from c is 0.96 of the signed angle from c
\* to g taken the short way round; 350 fused with 10 lies in (350, 360) or
\* (0, 10).
FusedOnShorterArc ==
  [][\A c \in FuseHeadings :
       (/\ sensor.hasGyro /\ sensor.gyroHeading # Null
        /\ onOrientation(CompassEvent(c)))
       => LET g == Val(sensor.gyroHeading)
              f == Val(sensor'.heading)
          IN /\ InRange(f)
             /\ Wrap180(FracSub(f, <<c, 1>>)) =
                  FracMul(<<24, 25>>, Wrap180(FracSub(g, <<c, 1>>)))
             /\ (c = 350 /\ g = <<10, 1>>)
                  => \/ FracLess(<<350, 1>>, f)
                     \/ FracLess(<<0, 1>>, f) /\ FracLess(f, <<10, 1>>)]_vars

\* 350 has been fused with the tracked heading 10: the result is 9.2
FusedOnShorterArcWitness ==
  /\ sensor.hasCompass /\ sensor.hasGyro
  /\ sensor.events = 2
  /\ sensor.heading = Num(<<46, 5>>)

FracAbs(a) == IF a[1] < 0 THEN <<-a[1], a[2]>> ELSE a

\* the signed angle from the compass heading to the heading h
ErrorOf(s, h) == Wrap180(FracSub(Val(h), <<Val(s.compass), 1>>))

\* C23: with the compass constant at c and a device that does not rotate,
\* a compass update leaves the tracked heading equal to the fused heading
\* and the angle between the fused heading and c at 0.96 of the angle
\* between the tracked heading and c, strictly smaller unless it was 0; a
\* motion event changes neither. After n updates the error is 0.96^n of
\* the first one.
ErrorShrinks ==
  [][/\ onOrientation(CompassEvent(Val(sensor.compass)))
        => /\ sensor'.gyroHeading = sensor'.heading
           /\ ErrorOf(sensor, sensor'.heading) =
                FracMul(<<24, 25>>, ErrorOf(sensor, sensor.gyroHeading))
           /\ \/ ErrorOf(sensor, sensor.gyroHeading) = <<0, 1>>
              \/ FracLess(FracAbs(ErrorOf(sensor, sensor'.heading)),
                          FracAbs(ErrorOf(sensor, sensor.gyroHeading)))
     /\ (\E now \in MotionTimes : onMotion(StillMotion, now))
        => /\ sensor'.gyroHeading = sensor.gyroHeading
           /\ sensor'.heading = sensor.heading]_vars

\* the compass reads 350, the tracked heading was 10, and the second update
\* has brought the error from 19.2 to 18.432
ErrorShrinksWitness ==
  /\ sensor.compass = Num(350)
  /\ sensor.events = 3
  /\ sensor.heading = Num(<<1054, 125>>)
  /\ sensor.gyroHeading = sensor.heading

\* C24 (as stated): the level of a reading is the classification, by the
\* five-level table, of the presence flags at the time of the capture.
ReadingLevelIsCurrent ==
  [][captureReading => Val(sensor'.reading).level = DetermineLevel(sensor)]_vars

\* C26 (as stated): the fused heading and the tracked heading are each null
\* or in [0, 360).
HeadingsInRange ==
  /\ sensor.heading # Null => InRange(Val(sensor.heading))
  /\ sensor.gyroHeading # Null => InRange(Val(sensor.gyroHeading))

\* a devicemotion event is handled
MotionStep ==
  \E e \in MotionEvents \cup TurningBack,
     now \in MotionTimes \cup LateMotionTimes : onMotion(e, now)

\* a compass update or a call of setInitialHeading
HeadingStep ==
  \/ \E e \in AbsoluteOrientationEvents : onAbsoluteOrientation(e)
  \/ \E e \in OrientationEvents : onOrientation(e)
  \/ \E deg \in InitialHeadings : setInitialHeading(deg)

\* a motion event leaves the fused heading alone and calls no listener, and
\* the heading of a reading changes on a compass update or a
\* setInitialHeading only
GyroLeavesHeading ==
  /\ MotionStep => /\ sensor'.heading = sensor.heading
                   /\ sensor'.notifications = 0
  /\ Reading(sensor').heading # Reading(sensor).heading => HeadingStep

ValidReading(e, isAbsolute) ==
  e.alpha # Null /\ e.alpha # Undef /\ isAbsolute

\* the capture has resolved with the heading of the event e
ResolvedWith(e) ==
  /\ capture'.pc = "resolved"
  /\ capture'.offset = Num((360 - Val(e.alpha)) % 360)

\* C25: the capture resolves once: with the heading 360 - alpha of the
\* first event that carries an absolute alpha while the timer is pending,
\* with 0 when the timer fires first; once it has resolved, neither
\* listener is registered and the timer is not pending; and a capture that
\* has been started does resolve.
CaptureCompletes ==
  /\ [](capture.resolved <= 1)
  /\ [](capture.pc = "resolved" =>
          /\ capture.resolved = 1
          /\ ~capture.absolute /\ ~capture.fallback /\ ~capture.timer)
  /\ [][capture.pc = "waiting" =>
          /\ capture.timer
          /\ captureTimeout => capture'.pc = "resolved" /\ capture'.offset = Num(0)
          /\ \A e \in CaptureAbsoluteEvents :
               captureAbsolute(e) =>
                 IF ValidReading(e, TRUE) THEN ResolvedWith(e)
                 ELSE capture' = capture
          /\ \A e \in CaptureFallbackEvents :
               captureFallback(e) =>
                 IF ValidReading(e, e.absolute) THEN ResolvedWith(e)
                 ELSE capture' = capture]_vars
  /\ (capture.pc = "waiting" ~> capture.pc = "resolved")

\* an event without alpha was ignored, alpha = 270 arrived before the
\* timeout, and the session started with the offset 90
CaptureCompletesWitness ==
  /\ capture.pc = "resolved"
  /\ capture.offset = Num(90)
  /\ ar.session = "running"

\* the anchors numbered a and b are placed, b right after a
Consecutive(anchors, a, b) ==
  \E k \in 1..(Len(anchors) - 1) : anchors[k] = a /\ anchors[k + 1] = b

\* C28 (as stated): when the distance dialog of the segment between two
\* anchors is answered, no point other than the one that was added for the
\* first of the two anchors gets a new distanceToNext, and that point gets
\* the entered or measured distance when both anchors are still placed.
DistanceOnAnchorPoint ==
  [][(ar.resolve # Null /\ ar'.resolve = Null) =>
       LET call == Val(ar.resolve)
           owner == ar.pointOf[call.from]
       IN /\ \A k \in 1..Len(points) :
               points'[k].distanceToNext # points[k].distanceToNext
                 => owner = Num(points[k].id)
          /\ Consecutive(ar.anchors, call.from, call.to) =>
               \E k \in 1..Len(points) :
                 /\ owner = Num(points[k].id)
                 /\ points'[k].distanceToNext \in
                      {call.measured} \cup (ARDistances \ {Null})]_vars

\* C29 (as stated): every _onARTap call that waits for the answer to its
\* distance dialog is the one _arDistanceResolve will wake, so that OK or
\* Skip resolves it and its distance is stored.
NoPromptLost ==
  \A call \in ar.waiting : ar.resolve = Obj(call)

\* the operations of the route that report failure
RouteOperations ==
  {"addPoint", "setSegmentDistance", "setPointDirection", "updateMemo",
   "updatePointByIndex", "undoLastPoint", "removePoint"}

TooLong(memo) == Len(Val(memo)) > MEMO_MAX_LENGTH

OutOfRange(index) == index < 0 \/ index >= Len(points)

Unknown(id) == \A k \in 1..Len(points) : points[k].id # id

\* C30: an operation of the route that returns failure leaves the points,
\* the id counter and the calibration unchanged and calls no subscriber;
\* and each of these returns failure: addPoint at capacity or with an
\* over-long memo, setSegmentDistance with an invalid index or distance,
\* setPointDirection and updatePointByIndex with an index out of range,
\* updateMemo with an unknown id or an over-long memo, removePoint with an
\* unknown id, undoLastPoint on the empty route.
FailureChangesNothing ==
  /\ [][(ret'.op \in RouteOperations /\ ~ret'.success)
          => (UNCHANGED pmVars /\ notified' = 0)]_vars
  /\ [](/\ \A m \in Memos :
            (Len(points) >= MAX_POINTS \/ TooLong(m))
              => ~ENABLED (addPoint(Num(3), Num(4), m) /\ ret'.success)
        /\ \A i \in Indices, d \in Distances :
            (\/ ~ValidSegment(i)
             \/ d # Null /\ (Val(d) < 0 \/ Val(d) > MAX_DISTANCE))
              => ~ENABLED (setSegmentDistance(i, d) /\ ret'.success)
        /\ \A i \in Indices, dir \in Directions :
            OutOfRange(i)
              => ~ENABLED (/\ setPointDirection(i, dir[1], dir[2], dir[3],
                                                dir[4])
                          /\ ret'.success)
        /\ \A i \in Indices, data \in Updates :
            OutOfRange(i)
              => ~ENABLED (updatePointByIndex(i, data) /\ ret'.success)
        /\ \A id \in Ids, m \in Memos :
            (Unknown(id) \/ TooLong(m))
              => ~ENABLED (updateMemo(id, m) /\ ret'.success)
        /\ \A id \in Ids :
            Unknown(id) => ~ENABLED (removePoint(id) /\ ret'.success)
        /\ points = <<>> => ~ENABLED (undoLastPoint /\ ret'.success))

\* updateMemo has just refused an over-long memo for a point of a
\* calibrated route of two points
FailureChangesNothingWitness ==
  /\ ret.op = "updateMemo" /\ ~ret.success /\ ret.error = "memo-length"
  /\ Len(points) = 2
  /\ calibration.pixelsPerMeter # Null

====
